---- MODULE Spec2Model ----
(***************************************************************************)
(* A model of fetch_namespace_modules.py: the template renderer, the two   *)
(* invocations of the external kda tool, the response extractor, the file  *)
(* writer and the temporary-file cleanup of main().                        *)
(*                                                                         *)
(* Text is a sequence of one-character strings.  The response document is  *)
(* read the way the code reads it: the top-level value when the response   *)
(* is parsed, then one entry per iteration of the outer loop and one       *)
(* module per iteration of the inner loop, each drawn from a bounded set.  *)
(***************************************************************************)
EXTENDS Integers, Sequences, FiniteSets, TLC

VARIABLES
    pc,             \* position of main() / parse_and_create_files()
    exitCode,       \* process exit status: 0 unless sys.exit(1) or a traceback
    cause,          \* which exit path ended the run ("" while running / clean end)
    tmplState,      \* environment: the template file is "ok", "missing", "unreadable"
    template,       \* yaml_template_content
    substitutions,  \* the substitution map built from the arguments
    rendered,       \* substituted_yaml_content
    substFile,      \* substituted_config.ktpl exists in the working directory
    jsonFile,       \* temp_fetch_module_code.json exists in the working directory
    nGen,           \* invocations of 'kda gen' so far
    genRc,          \* return code of 'kda gen'
    nLocal,         \* invocations of 'kda local' so far
    localRc,        \* return code of 'kda local'
    doc,            \* shape of the response text printed by 'kda local'
    nEntries,       \* entries of network_data taken so far
    entry,          \* the entry of the current outer iteration
    nMods,          \* modules of result_data taken so far
    module,         \* the module of the current inner iteration
    dirs,           \* directories in the working directory
    files,          \* output files: path -> content
    files0,         \* history: the output files the run found when it started
    envFault,       \* history: the environment failed the I/O call of the last step
    anyFault,       \* history: an I/O call failed for a reason other than the module's
                    \* name: the environment, or a code value that is not text
    want,           \* history: path -> code of the last well-formed module taken
    overwrote,      \* history: a well-formed module replaced another's code in want
    removeFailed,   \* history: an os.remove call of the cleanup raised
    lastMsg         \* the last message printed to stderr ("" when none yet)

vars == <<pc, exitCode, cause, tmplState, template, substitutions, rendered,
          substFile, jsonFile, nGen, genRc, nLocal, localRc, doc, nEntries,
          entry, nMods, module, dirs, files, files0,
          envFault, anyFault, want, overwrote, removeFailed, lastMsg>>

(***************************************************************************)
(* Bounds of the model.                                                    *)
(***************************************************************************)
MaxEntries == 2     \* entries taken from the list under the network URL
MaxMods == 2        \* modules taken from one entry's data list
MaxTokens == 3      \* fragments a template text is built from

(***************************************************************************)
(* Text.                                                                   *)
(***************************************************************************)
Str(s) == [t |-> "str", s |-> s]    \* a JSON string
Null == [t |-> "null", s |-> <<>>]  \* a missing field or JSON null: .get() gives None
Num == [t |-> "num", s |-> <<>>]    \* a non-zero JSON number: truthy, not a string

\* \w of the pattern, over the characters the model uses
WordChars == {"a", "b", "c", "h", "n", "u", "x", "y", "_", "t", "e", "s", "K", "D", "A"}
           \cup {"0", "1"}

Open3 == <<"{", "{", "{">>
Close3 == <<"}", "}", "}">>

StartsAt(t, i, w) ==
    /\ i + Len(w) - 1 <= Len(t)
    /\ \A k \in 1..Len(w) : t[i + k - 1] = w[k]

\* the longest run of \w characters of t that starts at position j
RECURSIVE WordRun(_, _)
WordRun(t, j) ==
    IF j <= Len(t) /\ t[j] \in WordChars THEN 1 + WordRun(t, j + 1) ELSE 0

\* the pattern \{\{\{(\w+)\}\}\} matched at position i: the length of group(1), 0 if no match
MatchAt(t, i) ==
    IF StartsAt(t, i, Open3)
    THEN LET k == WordRun(t, i + 3)
         IN  IF k >= 1 /\ StartsAt(t, i + 3 + k, Close3) THEN k ELSE 0
    ELSE 0

\* replacer(match): substitutions.get(key, match.group(0))
replacer(t, i, k, subs) ==
    LET key == SubSeq(t, i + 3, i + 2 + k)
    IN  IF key \in DOMAIN subs THEN subs[key] ELSE SubSeq(t, i, i + 5 + k)

\* pattern.sub(replacer, text, count): leftmost non-overlapping matches, left to right
RECURSIVE PatternSub(_, _, _, _)
PatternSub(t, i, subs, count) ==
    IF i > Len(t) THEN <<>>
    ELSE LET k == MatchAt(t, i)
         IN  IF k > 0 /\ count # 0
             THEN replacer(t, i, k, subs) \o PatternSub(t, i + 6 + k, subs, count - 1)
             ELSE <<t[i]>> \o PatternSub(t, i + 1, subs, count)

\* a faulty variant: pattern.sub(replacer, template_content, count=1)
substitute_first_only(template_content, subs) ==
    PatternSub(template_content, 1, subs, 1)

\* count=0 of re.sub means every match; -1 never reaches 0 here
substitute_placeholders(template_content, subs) ==
    PatternSub(template_content, 1, subs, -1)

(***************************************************************************)
(* Values the run reads from its environment.                              *)
(***************************************************************************)
KeyChain == <<"c", "h">>                       \* "chain", shortened
KeyNamespace == <<"n", "s">>                   \* "namespace", shortened
KeyOther == <<"u">>                            \* a placeholder main() does not map
KeyDashed == <<"x", "-", "y">>                 \* a key with a character outside \w
Placeholder(key) == Open3 \o key \o Close3

\* the text of fetch-modules.ktpl the pipeline runs on
DefaultTemplate ==
    Placeholder(KeyNamespace) \o <<" ">> \o Placeholder(KeyChain) \o <<" ">>
        \o Placeholder(KeyOther)

\* substitutions = {"chain": args.chain, "namespace": args.namespace}
ArgSubstitutions ==
    [k \in {KeyChain, KeyNamespace} |->
        IF k = KeyChain THEN <<"1">> ELSE <<"n", "_", "t", "e", "s", "t">>]

\* module names a response may carry
NameA == <<"a">>
NameAB == <<"a", ".", "b">>
NameABC == <<"a", ".", "b", ".", "c">>
NameDotB == <<".", "b">>
NameStrs == {NameA, NameAB, NameABC, NameDotB}
CodeStrs == {<<"x">>, <<"y">>}

NameVals == {Null, Num, Str(<<>>)} \cup {Str(n) : n \in NameStrs}
CodeVals == {Null, Num, Str(<<>>)} \cup {Str(c) : c \in CodeStrs}

\* an element of a data list: a JSON object with its name and code, or another value
NonObject == [obj |-> FALSE, name |-> Null, code |-> Null]
Modules ==
    {NonObject} \cup {[obj |-> TRUE, name |-> n, code |-> c] : n \in NameVals, c \in CodeVals}
NoModule == [obj |-> FALSE, name |-> Null, code |-> Str(<<"-">>)]

\* an element of network_data, by how far entry["body"]["result"]["data"] gets:
\* depth is the number of subscripts that succeed; at depth < 3 the value reached
\* there is an object without the next key ("nokey") or no object at all ("nonobj");
\* at depth 3 the data value is a list or not
Entries ==
    {[depth |-> d, at |-> a] : d \in 0..2, a \in {"nokey", "nonobj"}}
        \cup {[depth |-> 3, at |-> a] : a \in {"list", "notlist"}}
NoEntry == [depth |-> 0, at |-> "-"]

\* the stdout of 'kda local': whether it parses as JSON, the kind of the parsed
\* value, whether `network_url in data` is true of it (a key of an object, an
\* element of an array, a substring of a string), and whether the value under the
\* key is a list (for an object without the key: whether what it holds under its
\* other keys is a list of entries, which the code never reads)
Docs ==
    {[json |-> FALSE, kind |-> "-", has |-> FALSE, list |-> FALSE]}
        \cup {[json |-> TRUE, kind |-> "object", has |-> h, list |-> l] :
                 h \in BOOLEAN, l \in BOOLEAN}
        \cup {[json |-> TRUE, kind |-> k, has |-> h, list |-> FALSE] :
                 k \in {"array", "string"}, h \in BOOLEAN}
        \cup {[json |-> TRUE, kind |-> "scalar", has |-> FALSE, list |-> FALSE]}
NoDoc == [json |-> FALSE, kind |-> "none", has |-> FALSE, list |-> FALSE]

(***************************************************************************)
(* Helpers of parse_and_create_files.                                      *)
(***************************************************************************)
\* Python truth of a value: None and "" are false, a non-zero number is true
Truthy(v) == v.t = "num" \/ (v.t = "str" /\ v.s # <<>>)

\* `if not name or not code`
SkipsModule(name, code) == ~Truthy(name) \/ ~Truthy(code)

DotPositions(s) == {i \in 1..Len(s) : s[i] = "."}
MaxOf(S) == CHOOSE m \in S : \A x \in S : x <= m
MinOf(S) == CHOOSE m \in S : \A x \in S : m <= x

DefaultModuleName == <<"K", "D", "A">>
Extension == <<".", "p", "a", "c", "t">>

\* a faulty variant, name.split(".", 1): cuts at the first dot
SplitNameFirstDot(s) ==
    IF DotPositions(s) # {}
    THEN LET i == MinOf(DotPositions(s))
         IN  <<SubSeq(s, 1, i - 1), SubSeq(s, i + 1, Len(s))>>
    ELSE <<s, DefaultModuleName>>

\* lines 142-146: name.rsplit(".", 1), or the default module name
SplitName(s) ==
    IF DotPositions(s) # {}
    THEN LET i == MaxOf(DotPositions(s))
         IN  <<SubSeq(s, 1, i - 1), SubSeq(s, i + 1, Len(s))>>
    ELSE <<s, DefaultModuleName>>

\* os.path.join(namespace, f"{module_name}.pact")
Filename(ns, leaf) == <<ns, leaf \o Extension>>

\* a faulty variant, os.makedirs(namespace) without exist_ok: raises when the
\* directory is there
MakedirsRaisesIfExists(ns, existing) == ns = <<>> \/ ns \in existing
\* os.makedirs(namespace, exist_ok=True) raises by itself on the empty path
MakedirsRaises(ns, existing) == ns = <<>>

\* a faulty variant: any object will do, one of its other keys standing in
KeyFoundAnyObject(d) == d.kind = "object"
\* `network_url not in data` is false: the run goes on to data[network_url]
KeyFound(d) == d.has

\* `except KeyError` of the navigation: the exception classes it catches
ExceptKeyError(exc) == exc = "KeyError"

\* a faulty variant: `except TypeError`
ExceptTypeErrorOnly(exc) == exc = "TypeError"
\* `except Exception` of the writer and of the cleanup: every class the calls raise
ExceptException(exc) == exc \in {"KeyError", "TypeError", "AttributeError", "OSError"}

\* a faulty variant: generate_json without the os.path.isfile test
GenerateFailsOnRcOnly(rc, present) == rc # 0
\* generate_json: the two conditions that end the run after 'kda gen'
GenerateFails(rc, present) == rc # 0 \/ ~present

(***************************************************************************)
(* What the claims expect of a module, stated without the code's scan.     *)
(***************************************************************************)
HasDot(s) == \E i \in 1..Len(s) : s[i] = "."
NoDotIn(s) == \A i \in 1..Len(s) : s[i] # "."

\* the parts before and after the last dot, or the name and the default 'KDA'
ExpectedParts(s) ==
    IF HasDot(s)
    THEN CHOOSE p \in {<<SubSeq(s, 1, i - 1), SubSeq(s, i + 1, Len(s))>> : i \in 1..Len(s)} :
             p[1] \o <<".">> \o p[2] = s /\ NoDotIn(p[2])
    ELSE <<s, <<"K", "D", "A">>>>

ExpectedFile(s) ==
    <<ExpectedParts(s)[1], ExpectedParts(s)[2] \o <<".", "p", "a", "c", "t">>>>

\* a module with a non-empty name and non-empty code, both text
ValidModule(m) ==
    /\ m.obj
    /\ m.name.t = "str" /\ m.name.s # <<>>
    /\ m.code.t = "str" /\ m.code.s # <<>>

\* ... whose name also has a non-empty part before its last dot
WritableModule(m) == ValidModule(m) /\ ExpectedParts(m.name.s)[1] # <<>>

\* a data-list element whose name or code field is missing or empty
LacksNameOrCode(m) ==
    \/ ~m.obj
    \/ m.name = Null \/ m.name = Str(<<>>)
    \/ m.code = Null \/ m.code = Str(<<>>)

(***************************************************************************)
(* The run.                                                                *)
(***************************************************************************)
textVars == <<tmplState, template, substitutions>>
tmpVars == <<substFile, jsonFile>>
toolVars == <<nGen, genRc, nLocal, localRc, doc>>
loopVars == <<nEntries, entry, nMods, module>>
fsVars == <<dirs, files>>
histVars == <<files0, envFault, anyFault, want, overwrote, removeFailed>>

NoFiles == [p \in {} |-> <<>>]
\* a/b.pact with the text an earlier run wrote
OldFiles == [p \in {Filename(NameA, <<"b">>)} |-> <<"o">>]

\* sys.exit(1) after an error message; an uncaught exception ends the process the
\* same way, with a traceback and status 1
Abort(c) == pc' = "exit" /\ exitCode' = 1 /\ cause' = c /\ lastMsg' = c
Goto(p) == pc' = p /\ UNCHANGED <<exitCode, cause, lastMsg>>
Warn(p, msg) == pc' = p /\ lastMsg' = msg /\ UNCHANGED <<exitCode, cause>>

\* the state of a process that has not started its work
Fresh ==
    /\ exitCode = 0
    /\ cause = ""
    /\ rendered = <<>>
    /\ nGen = 0 /\ genRc = 0 /\ nLocal = 0 /\ localRc = 0
    /\ doc = NoDoc
    /\ nEntries = 0 /\ entry = NoEntry
    /\ nMods = 0 /\ module = NoModule
    /\ files = files0
    /\ dirs = {p[1] : p \in DOMAIN files0}
    /\ envFault = FALSE /\ anyFault = FALSE
    /\ want = NoFiles /\ overwrote = FALSE
    /\ removeFailed = FALSE
    /\ lastMsg = ""

Init ==
    /\ pc = "start"
    /\ tmplState \in {"ok", "missing", "unreadable"}
    /\ template = DefaultTemplate
    /\ substitutions = ArgSubstitutions
    /\ substFile \in BOOLEAN     \* an earlier run may have left its files behind
    /\ jsonFile \in BOOLEAN
    /\ files0 \in {NoFiles, OldFiles}     \* ... and its output
    /\ Fresh

\* lines 182-187: os.path.isfile(template_path)
CheckTemplate ==
    /\ pc = "start"
    /\ IF tmplState = "missing" THEN Abort("template_missing") ELSE Goto("read")
    /\ UNCHANGED <<textVars, rendered, tmpVars, toolVars, loopVars, fsVars, histVars>>

\* lines 190-195: read the template
ReadTemplate ==
    /\ pc = "read"
    /\ IF tmplState = "unreadable" THEN Abort("template_unreadable") ELSE Goto("render")
    /\ UNCHANGED <<textVars, rendered, tmpVars, toolVars, loopVars, fsVars, histVars>>

\* lines 198-204
Render ==
    /\ pc = "render"
    /\ rendered' = substitute_placeholders(template, substitutions)
    /\ Goto("write_subst")
    /\ UNCHANGED <<textVars, tmpVars, toolVars, loopVars, fsVars, histVars>>

\* lines 207-212: open(substituted_yaml_path, "w") and write
WriteSubstituted ==
    /\ pc = "write_subst"
    /\ \E f \in {"ok", "open", "write"} :
         /\ substFile' = IF f = "open" THEN substFile ELSE TRUE
         /\ IF f = "ok" THEN Goto("generate") ELSE Abort("subst_unwritable")
    /\ UNCHANGED <<textVars, rendered, jsonFile, toolVars, loopVars, fsVars, histVars>>

\* lines 61-74 and 215: 'kda gen'; the tool leaves the JSON file present or not
GenerateJson ==
    /\ pc = "generate"
    /\ \E rc \in {0, 1}, present \in BOOLEAN :
         /\ nGen' = nGen + 1
         /\ genRc' = rc
         /\ jsonFile' = present
         /\ IF GenerateFails(rc, present)
            THEN Abort(IF rc # 0 THEN "gen_nonzero" ELSE "json_missing")
            ELSE Goto("local")
    /\ UNCHANGED <<textVars, rendered, substFile, nLocal, localRc, doc, loopVars,
                   fsVars, histVars>>

\* lines 77-88 and 218: 'kda local'; its stdout is the response text
RunKdaLocal ==
    /\ pc = "local"
    /\ \E rc \in {0, 1}, d \in Docs :
         /\ nLocal' = nLocal + 1
         /\ localRc' = rc
         /\ IF rc # 0
            THEN Abort("local_nonzero") /\ doc' = doc
            ELSE Goto("parse") /\ doc' = d
    /\ UNCHANGED <<textVars, rendered, tmpVars, nGen, genRc, loopVars, fsVars, histVars>>

\* lines 95-113: json.loads, the key test, the lookup, the list test
ParseResponse ==
    /\ pc = "parse"
    /\ IF ~doc.json THEN Abort("not_json")
       ELSE IF doc.kind = "scalar" THEN Abort("traceback")    \* TypeError of `in`
       ELSE IF ~KeyFound(doc) THEN Abort("key_missing")
       ELSE IF doc.kind \in {"array", "string"} THEN Abort("traceback")  \* data[url]
       ELSE IF ~doc.list THEN Abort("not_list")
       ELSE Goto("entries")
    /\ UNCHANGED <<textVars, rendered, tmpVars, toolVars, loopVars, fsVars, histVars>>

\* line 115: the next entry of network_data
TakeEntry ==
    /\ pc = "entries"
    /\ nEntries < MaxEntries
    /\ \E e \in Entries : entry' = e
    /\ nEntries' = nEntries + 1
    /\ Goto("entry")
    /\ UNCHANGED <<textVars, rendered, tmpVars, toolVars, nMods, module, fsVars, histVars>>

\* line 115: network_data is exhausted; parse_and_create_files returns
EndEntries ==
    /\ pc = "entries"
    /\ Goto("cleanup")
    /\ UNCHANGED <<textVars, rendered, tmpVars, toolVars, loopVars, fsVars, histVars>>

\* lines 117-128: entry["body"]["result"]["data"] and the list test
Navigate ==
    /\ pc = "entry"
    /\ LET exc == IF entry.at = "nokey" THEN "KeyError"
                  ELSE IF entry.at = "nonobj" THEN "TypeError" ELSE "none"
       IN  IF exc # "none"
           THEN IF ExceptKeyError(exc)
                THEN Warn("entries", "warn_entry_key") /\ entry' = NoEntry
                ELSE Abort("traceback") /\ entry' = entry
           ELSE IF entry.at = "notlist"
                THEN Warn("entries", "warn_not_list") /\ entry' = NoEntry
                ELSE Goto("modules") /\ entry' = entry
    /\ nMods' = 0
    /\ UNCHANGED <<textVars, rendered, tmpVars, toolVars, nEntries, module, fsVars, histVars>>

\* line 130: the next module of result_data.  The history records what the
\* document now asks for: the code of the last writable module at each path.
TakeModule ==
    /\ pc = "modules"
    /\ nMods < MaxMods
    /\ \E m \in Modules :
         /\ module' = m
         /\ IF WritableModule(m)
            THEN LET p == ExpectedFile(m.name.s)
                 IN  /\ want' = (p :> m.code.s) @@ want
                     /\ overwrote' = (overwrote \/ (p \in DOMAIN want /\ want[p] # m.code.s))
            ELSE UNCHANGED <<want, overwrote>>
    /\ nMods' = nMods + 1
    /\ envFault' = FALSE
    /\ pc' = "module" /\ lastMsg' = "" /\ UNCHANGED <<exitCode, cause>>
    /\ UNCHANGED <<textVars, rendered, tmpVars, toolVars, nEntries, entry, fsVars, files0,
                   anyFault, removeFailed>>

\* line 130: result_data is exhausted; back to the outer loop
EndModules ==
    /\ pc = "modules"
    /\ pc' = "entries" /\ lastMsg' = "" /\ UNCHANGED <<exitCode, cause>>
    /\ entry' = NoEntry
    /\ nMods' = 0
    /\ envFault' = FALSE
    /\ UNCHANGED <<textVars, rendered, tmpVars, toolVars, nEntries, module, fsVars, files0,
                   anyFault, want, overwrote, removeFailed>>

\* lines 149-156: os.makedirs(namespace, exist_ok=True); fault is the call the
\* environment fails in this iteration, if any.  The exception raised, or "none".
MakedirsException(ns, fault) ==
    IF fault = "mkdir" \/ MakedirsRaises(ns, dirs) THEN "OSError" ELSE "none"

\* lines 159-169: open(filename, "w") truncates or creates the file, f.write(code)
\* fills it; write of a value that is not text raises TypeError after the open;
\* the environment may fail the open, or the write part-way
WriteException(code, fault) ==
    IF fault = "open" THEN "OSError"
    ELSE IF code.t # "str" THEN "TypeError"
    ELSE IF fault = "write" THEN "OSError" ELSE "none"

\* lines 131-169, one iteration of the inner loop: module.get of both fields, the
\* emptiness test, the split of the name, makedirs, open and write.  A value that
\* is no object has no .get (AttributeError) and `"." in name` of a number raises
\* TypeError; neither is inside a try block.  The locals are dead once the
\* iteration is over and are reset.
ProcessModule ==
    /\ pc = "module"
    /\ \E fault \in {"none", "mkdir", "open", "write"}, k \in 0..Len(module.code.s) :
         IF ~module.obj
         THEN /\ fault = "none" /\ k = 0
              /\ Abort("traceback")
              /\ UNCHANGED <<fsVars, envFault, anyFault>>
         ELSE IF SkipsModule(module.name, module.code)
         THEN /\ fault = "none" /\ k = 0
              /\ Warn("modules", "warn_module_fields")
              /\ UNCHANGED <<fsVars, envFault, anyFault>>
         ELSE IF module.name.t # "str"
         THEN /\ fault = "none" /\ k = 0
              /\ Abort("traceback")
              /\ UNCHANGED <<fsVars, envFault, anyFault>>
         ELSE LET ns == SplitName(module.name.s)[1]
                  leaf == SplitName(module.name.s)[2]
                  filename == Filename(ns, leaf)
                  text == module.code.s
                  mkExc == MakedirsException(ns, fault)
                  wrExc == WriteException(module.code, fault)
              IN  IF mkExc # "none"
                  THEN /\ fault \in {"none", "mkdir"} /\ k = 0
                       /\ IF ExceptException(mkExc)
                          THEN Warn("modules", "err_mkdir")
                          ELSE Abort("traceback")
                       /\ envFault' = (fault # "none")
                       /\ anyFault' = (anyFault \/ fault # "none")
                       /\ UNCHANGED fsVars
                  ELSE /\ fault # "mkdir"
                       /\ IF wrExc = "none" THEN k = Len(text) ELSE k < Len(text) \/ k = 0
                       /\ fault = "open" => k = 0
                       /\ dirs' = dirs \cup {ns}
                       /\ files' = IF fault = "open" THEN files
                                   ELSE (filename :> SubSeq(text, 1, k)) @@ files
                       /\ envFault' = (fault # "none")
                       /\ anyFault' = (anyFault \/ wrExc # "none")
                       /\ IF wrExc = "none" THEN Warn("modules", "")
                          ELSE IF ExceptException(wrExc) THEN Warn("modules", "err_write")
                          ELSE Abort("traceback")
    /\ module' = NoModule
    /\ UNCHANGED <<textVars, rendered, tmpVars, toolVars, nEntries, entry, nMods,
                   files0, want, overwrote, removeFailed>>

\* lines 224-225 and 230-231: os.remove(json_file); a failure skips line 226
RemoveJson ==
    /\ pc = "cleanup"
    /\ \E fail \in BOOLEAN :
         IF fail \/ ~jsonFile
         THEN /\ Warn("exit", "warn_cleanup")
              /\ removeFailed' = TRUE
              /\ jsonFile' = jsonFile
         ELSE /\ Goto("cleanup2")
              /\ jsonFile' = FALSE
              /\ removeFailed' = removeFailed
    /\ UNCHANGED <<textVars, rendered, substFile, toolVars, loopVars, fsVars, files0,
                   envFault, anyFault, want, overwrote>>

\* lines 226 and 230-231: os.remove(substituted_yaml_path); main() returns
RemoveSubstituted ==
    /\ pc = "cleanup2"
    /\ \E fail \in BOOLEAN :
         IF fail \/ ~substFile
         THEN /\ Warn("exit", "warn_cleanup")
              /\ removeFailed' = TRUE
              /\ substFile' = substFile
         ELSE /\ Goto("exit")
              /\ substFile' = FALSE
              /\ removeFailed' = removeFailed
    /\ UNCHANGED <<textVars, rendered, jsonFile, toolVars, loopVars, fsVars, files0,
                   envFault, anyFault, want, overwrote>>

Next ==
    \/ CheckTemplate \/ ReadTemplate \/ Render \/ WriteSubstituted
    \/ GenerateJson \/ RunKdaLocal \/ ParseResponse
    \/ TakeEntry \/ EndEntries \/ Navigate
    \/ TakeModule \/ EndModules \/ ProcessModule
    \/ RemoveJson \/ RemoveSubstituted

Spec == Init /\ [][Next]_vars

(***************************************************************************)
(* substitute_placeholders on its own, over template texts built from      *)
(* fragments and over substitution maps with any of four keys.             *)
(***************************************************************************)
Fragments ==
    {Placeholder(KeyChain), Placeholder(KeyNamespace), Placeholder(KeyOther),
     Placeholder(KeyDashed), Placeholder(<<>>), <<"{">>, <<"}">>, <<"a">>}

RECURSIVE Flatten(_)
Flatten(ts) == IF ts = <<>> THEN <<>> ELSE Head(ts) \o Flatten(Tail(ts))

Templates == {Flatten(ts) : ts \in UNION {[1..n -> Fragments] : n \in 0..MaxTokens}}

MapKeys == {KeyChain, KeyNamespace, KeyDashed, <<>>}

\* the value of each key; the chain value may itself look like a placeholder
ValueOf(key, nested) ==
    IF key = KeyChain THEN (IF nested THEN Placeholder(KeyNamespace) ELSE <<"1">>)
    ELSE IF key = KeyNamespace THEN <<"n", "_", "t", "e", "s", "t">>
    ELSE IF key = KeyDashed THEN <<"d">>
    ELSE <<"e">>

SubstMaps == {[k \in D |-> ValueOf(k, nested)] : D \in SUBSET MapKeys, nested \in BOOLEAN}

InitSubst ==
    /\ pc = "subst"
    /\ tmplState = "ok"
    /\ template \in Templates
    /\ substitutions \in SubstMaps
    /\ substFile = FALSE
    /\ jsonFile = FALSE
    /\ files0 = NoFiles
    /\ Fresh

\* lines 45-58, called on its own
Substitute ==
    /\ pc = "subst"
    /\ rendered' = substitute_placeholders(template, substitutions)
    /\ Goto("subst_done")
    /\ UNCHANGED <<textVars, tmpVars, toolVars, loopVars, fsVars, histVars>>

NextSubst == Substitute

SpecSubst == InitSubst /\ [][NextSubst]_vars

(***************************************************************************)
(* The claims.                                                             *)
(***************************************************************************)
KdaFile == <<NameA, DefaultModuleName \o Extension>>    \* a/KDA.pact
LeafBFile == <<NameA, <<"b">> \o Extension>>            \* a/b.pact
LeafCFile == <<<<"a", ".", "b">>, <<"c">> \o Extension>> \* a.b/c.pact

InitialDirs == {p[1] : p \in DOMAIN files0}

\* the parsed response has the network URL as a top-level key
HasUrlKey(d) == d.json /\ d.kind = "object" /\ d.has

\* one of the fatal errors the interface lists has occurred in this run
ListedFatal ==
    \/ tmplState \in {"missing", "unreadable"}
    \/ cause = "subst_unwritable"
    \/ (nGen = 1 /\ genRc # 0)
    \/ cause = "json_missing"
    \/ (nLocal = 1 /\ localRc # 0)
    \/ (doc # NoDoc /\ (~doc.json \/ ~HasUrlKey(doc) \/ ~doc.list))

\* C1: a run ends with exit code 1 exactly when one of the listed fatal errors
\* occurred, and with 0 otherwise; skipped records never change the exit code.
C1_ExitCodeIffListedFatal ==
    pc = "exit" => (exitCode = 1 <=> ListedFatal)

\* C2: a response that parses as JSON but has no network-URL key at its top level
\* ends the run with a fatal error and no output directory or file exists,
\* whatever the document holds under other keys.
C2_MissingKeyAbortsWithoutOutput ==
    (doc # NoDoc /\ doc.json /\ ~HasUrlKey(doc) /\ pc # "parse")
        => (pc = "exit" /\ exitCode = 1 /\ files = files0 /\ dirs = InitialDirs)

C2_Witness ==
    /\ pc = "exit" /\ cause = "key_missing"
    /\ doc.kind = "object" /\ ~doc.has /\ doc.list

\* what one iteration does with a module of non-empty name and code when the
\* environment fails none of its calls, as the claim has it
WritesExpectedFile ==
    /\ files' = (ExpectedFile(module.name.s) :> module.code.s) @@ files
    /\ dirs' = dirs \cup {ExpectedParts(module.name.s)[1]}
    /\ lastMsg' = ""
    /\ pc' = "modules"

\* C3 (as claimed): every module with a non-empty name and non-empty code gets
\* exactly one file, <namespace>/<leaf>.pact, holding its code.
C3_EveryValidModuleWritten ==
    [][(pc = "module" /\ ValidModule(module) /\ ~envFault') => WritesExpectedFile]_vars

\* C3 (amended): a module with a non-empty name and non-empty code, when directory
\* creation and the write succeed, gets exactly one file, <namespace>/<leaf>.pact
\* with namespace and leaf the parts before and after the last dot (leaf 'KDA'
\* without a dot), holding its code and leaving every other file alone; when the
\* part before the last dot is empty, directory creation fails and the module is
\* skipped with an error message and no file.
C3_WritableModuleWritten ==
    [][(pc = "module" /\ ValidModule(module) /\ ~envFault') =>
          IF WritableModule(module)
          THEN WritesExpectedFile
          ELSE /\ files' = files /\ dirs' = dirs
               /\ lastMsg' = "err_mkdir" /\ pc' = "modules"]_vars

C3_Witness ==
    /\ pc = "modules" /\ lastMsg = "" /\ ~anyFault
    /\ KdaFile \in DOMAIN files /\ files[KdaFile] = <<"x">>
    /\ LeafCFile \in DOMAIN files /\ files[LeafCFile] = <<"y">>

\* C4: a data-list element whose name or code field is missing or empty is skipped
\* with a warning, creates no file, and the loop goes on to its siblings in the
\* state it would be in without that element; the run does not abort.
C4_BadModuleSkipped ==
    [][(pc = "module" /\ LacksNameOrCode(module)) =>
          /\ pc' = "modules" /\ lastMsg' = "warn_module_fields"
          /\ files' = files /\ dirs' = dirs
          /\ exitCode' = exitCode /\ cause' = cause]_vars

\* C5: an entry whose body -> result -> data path cannot be followed, or whose data
\* is no list, is skipped with a warning, writes nothing, and the loop goes on to
\* the next entry; a malformed entry never aborts the run.
C5_MalformedEntrySkipped ==
    [][(pc = "entry" /\ entry.at # "list") =>
          /\ pc' = "entries" /\ lastMsg' \in {"warn_entry_key", "warn_not_list"}
          /\ files' = files /\ dirs' = dirs
          /\ exitCode' = exitCode /\ cause' = cause]_vars

\* the text with every literal {{{key}}} of a mapped key replaced by its value,
\* left to right, and everything else kept
OccursAt(t, i, w) ==
    /\ i + Len(w) - 1 <= Len(t)
    /\ SubSeq(t, i, i + Len(w) - 1) = w

RECURSIVE LiteralReplace(_, _, _)
LiteralReplace(t, i, subs) ==
    IF i > Len(t) THEN <<>>
    ELSE LET hits == {k \in DOMAIN subs : OccursAt(t, i, <<"{", "{", "{">> \o k \o <<"}", "}", "}">>)}
         IN  IF hits # {}
             THEN LET k == CHOOSE k \in hits : TRUE
                  IN  subs[k] \o LiteralReplace(t, i + Len(k) + 6, subs)
             ELSE <<t[i]>> \o LiteralReplace(t, i + 1, subs)

WordKey(k) == Len(k) >= 1 /\ \A i \in 1..Len(k) : k[i] \in WordChars

\* C6 (as claimed): for all templates and all substitution maps the result is the
\* template with every {{{key}}} of a mapped key replaced and the rest unchanged.
C6_ReplacesEveryMappedKey ==
    pc = "subst_done" => rendered = LiteralReplace(template, 1, substitutions)

\* C6 (amended): for all templates and all substitution maps whose keys are
\* non-empty and made of word characters, the result is the template with every
\* {{{key}}} of a mapped key replaced by its value, however often it occurs, with
\* unmapped placeholders and all other text unchanged and in place.
C6_ReplacesEveryWordKey ==
    (pc = "subst_done" /\ \A k \in DOMAIN substitutions : WordKey(k))
        => rendered = LiteralReplace(template, 1, substitutions)

C6_Witness ==
    /\ pc = "subst_done"
    /\ substitutions = ArgSubstitutions
    /\ template = Placeholder(KeyChain) \o Placeholder(KeyNamespace) \o Placeholder(KeyChain)
    /\ rendered = <<"1", "n", "_", "t", "e", "s", "t", "1">>

\* C7: in every terminal state, after success or after a fatal abort that follows
\* the writing of the temporary files, neither temporary file is left unless a
\* deletion attempt failed.
C7_TempFilesDeleted ==
    (pc = "exit" /\ ~removeFailed)
        => ((nGen >= 1 => ~substFile) /\ (nLocal >= 1 => ~jsonFile))

\* the file one iteration may touch
ThatFile == ExpectedFile(module.name.s)

\* makedirs or the write of this iteration fails: the environment fails a call, the
\* namespace is empty, or the code is no text
IOFails ==
    /\ module.obj /\ ~SkipsModule(module.name, module.code) /\ module.name.t = "str"
    /\ envFault' \/ ExpectedParts(module.name.s)[1] = <<>> \/ module.code.t # "str"

\* C8: a directory-creation or file-write failure for one module is reported, is
\* never fatal, and costs only that module: every other file stays as written and
\* the loop goes on to the remaining modules and to the cleanup.
C8_IOFailureSkipsOneModule ==
    [][(pc = "module" /\ IOFails) =>
          /\ pc' = "modules" /\ lastMsg' \in {"err_mkdir", "err_write"}
          /\ exitCode' = 0 /\ cause' = ""
          /\ \A p \in DOMAIN files : p # ThatFile => p \in DOMAIN files' /\ files'[p] = files[p]
          /\ DOMAIN files' \subseteq DOMAIN files \cup {ThatFile}
          /\ dirs \subseteq dirs']_vars

C8_Witness ==
    /\ pc = "cleanup2" /\ exitCode = 0 /\ anyFault
    /\ \E p \in DOMAIN files : files[p] \in CodeStrs /\ p \in DOMAIN want /\ want[p] = files[p]
    /\ \E p \in DOMAIN want : p \notin DOMAIN files

\* C9: render, generate, execute and extract/write happen in this order, each at
\* most once; a nonzero exit or a missing JSON file after the generate step ends
\* the run with exit code 1 before the execute step, and a nonzero exit of the
\* execute step ends it before any response is parsed or any file written.
C9_StagesInOrderOnce ==
    /\ nGen <= 1 /\ nLocal <= 1
    /\ pc = "generate" => (nGen = 0 /\ substFile /\ rendered # <<>>)
    /\ pc = "local" => (nGen = 1 /\ nLocal = 0 /\ genRc = 0 /\ jsonFile)
    /\ nLocal = 1 => (nGen = 1 /\ genRc = 0)
    /\ pc \in {"parse", "entries", "entry", "modules", "module", "cleanup", "cleanup2"}
          => (nLocal = 1 /\ localRc = 0 /\ doc # NoDoc)
    /\ (nGen = 1 /\ nLocal = 0 /\ (genRc # 0 \/ ~jsonFile))
          => (pc = "exit" /\ exitCode = 1 /\ cause \in {"gen_nonzero", "json_missing"})
    /\ (nLocal = 1 /\ localRc # 0)
          => (pc = "exit" /\ exitCode = 1 /\ cause = "local_nonzero" /\ doc = NoDoc)
    /\ (files # files0 \/ dirs # InitialDirs \/ nEntries > 0) => (nLocal = 1 /\ localRc = 0)

C9_Witness ==
    /\ pc = "exit" /\ exitCode = 1 /\ cause = "json_missing"
    /\ nGen = 1 /\ genRc = 0 /\ nLocal = 0 /\ files = files0

\* C10: when no I/O call fails, every path a writable module maps to holds the code
\* of the last such module in document order, in a directory that exists: two
\* modules of one namespace with distinct leaf names both keep their file, and of
\* two modules with the same path the later one wins.
C10_LastWriteWins ==
    (pc \in {"modules", "entries", "cleanup", "cleanup2", "exit"} /\ ~anyFault)
        => \A p \in DOMAIN want :
              p \in DOMAIN files /\ files[p] = want[p] /\ p[1] \in dirs

C10_Witness ==
    /\ pc = "exit" /\ exitCode = 0 /\ ~anyFault /\ overwrote
    /\ KdaFile \in DOMAIN files /\ LeafBFile \in DOMAIN files
    /\ files[KdaFile] # files[LeafBFile]

====
